---------------------------- MODULE Spec2Model ----------------------------
(***************************************************************************)
(* A model of the useReplayEvent hook                                      *)
(* (static/app/views/replays/utils/useReplayEvent.tsx), followed by models *)
(* of three components: TeamSelector and RuleModal (ruleModal.tsx) and     *)
(* the widget Queries (queries.tsx).  Each specification renders one of    *)
(* them and leaves the others unrendered.                                  *)
(*                                                                         *)
(* The hook keeps one snapshot (`state`).  Every run of its effect starts  *)
(* a load cycle: loadEvents resets the snapshot, starts three fetch        *)
(* branches, joins them with Promise.all, merges the results and           *)
(* publishes a success snapshot, or publishes an error snapshot from its   *)
(* catch block.  Each handler of a network response is one action: the     *)
(* promise reactions it triggers are microtasks and run to completion      *)
(* before the next response is handled.                                    *)
(*                                                                         *)
(* Strings the code inspects character by character (event slugs and       *)
(* attachment names) are sequences of one-character strings.  An optional  *)
(* value (T | undefined) is a sequence of length at most one.              *)
(***************************************************************************)
EXTENDS Integers, Sequences, FiniteSets, TLC

VARIABLES
    server,   \* what the backend holds: the attachment list and the event index
    props,    \* the hook's current Options: [orgId, eventSlug]
    state,    \* the State held by useState, returned as the Result
    cycles,   \* one record per loadEvents() call made so far, in call order
    selector, \* TeamSelector: its props, its options and its calls
    widget,   \* Queries: the props its parent renders it with
    modal     \* RuleModal: its state, its request and its calls

\* the components beside the hook
components == <<selector, widget, modal>>

vars == <<server, props, state, cycles, selector, widget, modal>>

-----------------------------------------------------------------------------
(* Optional values *)

None == <<>>

Some(v) == <<v>>

IsDefined(o) == o /= <<>>

Get(o) == o[1]

-----------------------------------------------------------------------------
(* Bounds of the model *)

\* loadEvents() calls in one behaviour of Spec (the hook re-rendered with new inputs)
MaxCycles == 2

\* objects the backend holds for one replay: attachments plus related events
MaxItems == 2

-----------------------------------------------------------------------------
(* isRRWebEventAttachment *)

\* the {13} of IS_RRWEB_ATTACHMENT_FILENAME
RRWebDigits == 13

IsDigit(ch) == ch \in {"0", "1", "2", "3", "4", "5", "6", "7", "8", "9"}

\* what a `.` of a regular expression without the s flag does not match
LineTerminators == {"\n", "\r"}

RRWebPrefix == <<"r", "r", "w", "e", "b", "-">>

JsonWord == <<"j", "s", "o", "n">>

\* the pattern rrweb-[0-9]{13}.json matched against name at offset i
MatchesAt(name, i) ==
    LET d == i + Len(RRWebPrefix)      \* first digit
        dot == d + RRWebDigits         \* the character matched by `.`
    IN  /\ dot + Len(JsonWord) <= Len(name)
        /\ SubSeq(name, i, d - 1) = RRWebPrefix
        /\ \A k \in d..(dot - 1) : IsDigit(name[k])
        /\ name[dot] \notin LineTerminators
        /\ SubSeq(name, dot + 1, dot + Len(JsonWord)) = JsonWord

\* RegExp.prototype.test of a pattern without anchors: a match at any offset
IS_RRWEB_ATTACHMENT_FILENAME(name) == \E i \in 1..Len(name) : MatchesAt(name, i)

-----------------------------------------------------------------------------
(* const [projectId, eventId] = eventSlug.split(':') *)

RECURSIVE SplitFrom(_, _, _)
\* String.prototype.split: the pieces of s between separators, cur being the
\* piece under construction
SplitFrom(s, sep, cur) ==
    IF s = <<>> THEN <<cur>>
    ELSE IF Head(s) = sep THEN <<cur>> \o SplitFrom(Tail(s), sep, <<>>)
    ELSE SplitFrom(Tail(s), sep, Append(cur, Head(s)))

Split(s, sep) == SplitFrom(s, sep, <<>>)

\* array destructuring: a missing element is undefined
ElementAt(arr, i) == IF i <= Len(arr) THEN Some(arr[i]) ELSE None

ParseSlug(eventSlug) ==
    LET parts == Split(eventSlug, ":")
    IN  [projectId |-> ElementAt(parts, 1), eventId |-> ElementAt(parts, 2)]

-----------------------------------------------------------------------------
(* What the backend can hold *)

Name(digit, dot, tail) ==
    RRWebPrefix
        \o <<"1", "6", "7", "0", "0", "0", "0", "0", "0", "0", "0", "0", digit>>
        \o <<dot>> \o JsonWord \o tail

\* IssueAttachment.name by IssueAttachment.id
AttachmentName ==
    [ a1 |-> Name("1", ".", <<>>),                      \* rrweb-1670000000001.json
      a2 |-> <<"o", "t", "h", "e", "r", ".">> \o JsonWord,   \* other.json
      a3 |-> Name("3", "x", <<>>) ]                     \* rrweb-1670000000003xjson

AttachmentIds == DOMAIN AttachmentName

\* the body of the attachment download: JSON text whose `events` is a list
AttachmentEvents ==
    [ a1 |-> <<[attachment |-> "a1", timestamp |-> 1],
               [attachment |-> "a1", timestamp |-> 2]>>,
      a2 |-> <<[attachment |-> "a2", timestamp |-> 3]>>,
      a3 |-> <<[attachment |-> "a3", timestamp |-> 4]>> ]

Span(id, ts) == [id |-> id, timestamp |-> ts]

Entry(type, data) == [type |-> type, data |-> data]

\* the full body of each sentry-replay-event, by id
EventBody ==
    [ A |-> [id |-> "A",
             entries |-> <<Entry("breadcrumbs", <<Span("c1", 5)>>),
                           Entry("spans", <<Span("s1", 10), Span("s2", 30)>>)>>],
      B |-> [id |-> "B",
             entries |-> <<Entry("spans", <<Span("s3", 20)>>),
                           Entry("spans", <<Span("s4", 40)>>)>>],
      D |-> [id |-> "D",
             entries |-> <<Entry("breadcrumbs", <<Span("c2", 15)>>)>>],
      E |-> [id |-> "E",
             entries |-> <<Entry("spans", <<>>)>>] ]

EventIds == DOMAIN EventBody

SeqsUpTo(S, n) == UNION {[1..k -> S] : k \in 0..n}

\* every backend content of at most MaxItems objects
Servers ==
    {[attachments |-> a, related |-> r] :
        <<a, r>> \in {p \in SeqsUpTo(AttachmentIds, MaxItems)
                            \X SeqsUpTo(EventIds, MaxItems) :
                        Len(p[1]) + Len(p[2]) <= MaxItems}}

\* the backend contents of the re-render specification: one object
SmallServers ==
    { [attachments |-> <<"a1">>, related |-> <<>>],
      [attachments |-> <<>>, related |-> <<"A">>] }

Input(orgId, eventSlug) == [orgId |-> orgId, eventSlug |-> eventSlug]

\* Options the hook is rendered with: "1:a", "2:b" and three malformed slugs
ValidInputs ==
    { Input("org", <<"1", ":", "a">>), Input("org", <<"2", ":", "b">>) }

MalformedInputs ==
    { Input("org", <<"1", "a">>),
      Input("org", <<":", "a">>),
      Input("org", <<"1", ":", "a", ":", "b">>) }

-----------------------------------------------------------------------------
(* The State of the hook *)

\* useState's initial value, and the value loadEvents sets first
InitialState ==
    [ fetchError |-> None,
      fetching |-> TRUE,
      breadcrumbEntry |-> None,
      event |-> None,
      replayEvents |-> None,
      rrwebEvents |-> None,
      mergedReplayEvent |-> None ]

\* a catch block that spreads the current state: {...state, fetchError: error,
\* fetching: false}
ErrorStateSpread(error) ==
    [state EXCEPT !.fetchError = Some(error), !.fetching = FALSE]

ErrorState(error) ==
    [ fetchError |-> Some(error),
      fetching |-> FALSE,
      breadcrumbEntry |-> None,
      event |-> None,
      replayEvents |-> None,
      rrwebEvents |-> None,
      mergedReplayEvent |-> None ]

\* {...state, fetchError: undefined, fetching: false, event, ...}: every field
\* of the spread state is overwritten
SuccessState(event, mergedReplayEvent, replayEvents, rrwebEvents, breadcrumbEntry) ==
    [ state EXCEPT
        !.fetchError = None,
        !.fetching = FALSE,
        !.event = Some(event),
        !.mergedReplayEvent = Some(mergedReplayEvent),
        !.replayEvents = Some(replayEvents),
        !.rrwebEvents = Some(rrwebEvents),
        !.breadcrumbEntry = Some(breadcrumbEntry) ]

-----------------------------------------------------------------------------
(* The merge step of loadEvents *)

RECURSIVE Flat(_)
\* Array.prototype.flat: one level
Flat(arrays) == IF arrays = <<>> THEN <<>> ELSE Head(arrays) \o Flat(Tail(arrays))

isReplayEventEntity(entry) == entry.type = "spans"

\* entries.find(isReplayEventEntity): the first entry satisfying the test, or
\* undefined
FindReplayEventEntity(entries) ==
    LET hits == {i \in 1..Len(entries) : isReplayEventEntity(entries[i])}
    IN  IF hits = {} THEN None
        ELSE Some(entries[CHOOSE i \in hits : \A j \in hits : i <= j])

\* mergeBreadcrumbsEntries: one breadcrumbs entry holding the breadcrumbs of
\* all related events
mergeBreadcrumbsEntries(replayEvents) ==
    LET crumbs(ev) ==
            Flat([i \in 1..Len(ev.entries) |->
                    IF ev.entries[i].type = "breadcrumbs"
                    THEN ev.entries[i].data ELSE <<>>])
    IN  Entry("breadcrumbs",
              Flat([i \in 1..Len(replayEvents) |-> crumbs(replayEvents[i])]))

\* replayEvent.entries.find(isReplayEventEntity).data throws a TypeError when
\* find returns undefined
SpansThrows(replayEvents) ==
    \E i \in 1..Len(replayEvents) :
        ~IsDefined(FindReplayEventEntity(replayEvents[i].entries))

\* a merge that takes every spans-typed entry (filter in place of find)
MergedSpansAllEntries(replayEvents) ==
    Flat([i \in 1..Len(replayEvents) |->
            Flat([k \in 1..Len(replayEvents[i].entries) |->
                    IF isReplayEventEntity(replayEvents[i].entries[k])
                    THEN replayEvents[i].entries[k].data ELSE <<>>])])

MergedSpans(replayEvents) ==
    Flat([i \in 1..Len(replayEvents) |->
            Get(FindReplayEventEntity(replayEvents[i].entries)).data])

\* spans[spans.length - 1]?.timestamp
EndTimestamp(spans) ==
    IF spans = <<>> THEN None ELSE Some(spans[Len(spans)].timestamp)

\* {...replayEvents[0], breakdowns: null, entries: [...], endTimestamp}: the
\* spread of undefined adds no property
MergedReplayEvent(replayEvents) ==
    LET spans == MergedSpans(replayEvents)
    IN  [ id |-> IF replayEvents = <<>> THEN None ELSE Some(replayEvents[1].id),
          breakdowns |-> "null",
          entries |-> <<Entry("spans", spans)>>,
          endTimestamp |-> EndTimestamp(spans) ]

-----------------------------------------------------------------------------
(* Requests and load cycles *)

\* a rejected request, a JSON.parse failure or the TypeError of the merge
\* step; `request` names the request (or step) it comes from
Error(name, request) == [name |-> name, request |-> request]

isRRWebEventAttachment(attachment) ==
    IS_RRWEB_ATTACHMENT_FILENAME(AttachmentName[attachment])

\* a fetchRRWebEvents that downloads every listed attachment
RRWebAttachmentIdsUnfiltered(attachmentIds) == attachmentIds

\* attachmentIds.filter(isRRWebEventAttachment)
RRWebAttachmentIds(attachmentIds) ==
    SelectSeq(attachmentIds, isRRWebEventAttachment)

\* a loadEvents that awaits each branch before it starts the next
StartBranchesInSequence ==
    [root |-> "pending", attList |-> "unissued", index |-> "unissued"]

\* Promise.all([fetchEvent(), fetchRRWebEvents(), fetchReplayEvents()]): the
\* three calls run to their first await, each issuing its first request,
\* before the join is awaited
StartBranches ==
    [root |-> "pending", attList |-> "pending", index |-> "pending"]

\* the record of one loadEvents() call.  A request is "unissued", "pending",
\* "ok" or "fail" ("malformed" for a download whose body JSON.parse rejects).
\* joined is the state of the Promise.all of line 160.  firstFailure (the
\* first failure among the cycle's requests) and published (the snapshots
\* set after the reset) record history; no action reads them.
NewCycle(input) ==
    LET ids == ParseSlug(input.eventSlug)
    IN  [ input |-> input,
          projectId |-> ids.projectId,
          eventId |-> ids.eventId,
          root |-> StartBranches.root,
          attList |-> StartBranches.attList,
          dl |-> <<>>,
          dlDone |-> <<>>,
          index |-> StartBranches.index,
          rel |-> <<>>,
          relDone |-> <<>>,
          joined |-> "pending",
          firstFailure |-> None,
          published |-> <<>> ]

\* the requests a cycle has issued, by URL
Requests(cy) ==
    (IF cy.root = "unissued" THEN {} ELSE
        {[url |-> "/organizations/{orgId}/events/{eventSlug}/",
          orgId |-> cy.input.orgId, eventSlug |-> cy.input.eventSlug]})
    \cup
    (IF cy.attList = "unissued" THEN {} ELSE
        {[url |-> "/projects/{orgId}/{projectId}/events/{eventId}/attachments/",
          orgId |-> cy.input.orgId, projectId |-> cy.projectId,
          eventId |-> cy.eventId]})
    \cup
    {[url |-> "/api/0/projects/{orgId}/{projectId}/events/{eventId}/attachments/{id}/?download",
      orgId |-> cy.input.orgId, projectId |-> cy.projectId,
      eventId |-> cy.eventId, id |-> cy.dl[i].attachment] : i \in 1..Len(cy.dl)}
    \cup
    (IF cy.index = "unissued" THEN {} ELSE
        {[url |-> "/organizations/{orgId}/eventsv2/",
          orgId |-> cy.input.orgId, replayId |-> cy.eventId]})
    \cup
    {[url |-> "/organizations/{orgId}/events/{generateEventSlug(event)}/",
      orgId |-> cy.input.orgId, event |-> cy.rel[j].event] : j \in 1..Len(cy.rel)}

\* the event the backend returns for a slug
RootEvent(input) == [eventSlug |-> input.eventSlug, orgId |-> input.orgId]

\* every promise Promise.all joins is fulfilled
AllFulfilled(cy) ==
    /\ cy.root = "ok"
    /\ cy.attList = "ok"
    /\ \A i \in 1..Len(cy.dl) : cy.dl[i].status = "ok"
    /\ cy.index = "ok"
    /\ \A j \in 1..Len(cy.rel) : cy.rel[j].status = "ok"

\* a merge step that reads a property of replayEvents[0] without a guard: a
\* TypeError when there is no related event
MergeFaultsOnEmpty(event, rrwebEvents, replayEvents) ==
    IF replayEvents = <<>> \/ SpansThrows(replayEvents)
    THEN ErrorState(Error("TypeError", <<"merge", 0>>))
    ELSE SuccessState(event,
                      MergedReplayEvent(replayEvents),
                      replayEvents,
                      rrwebEvents,
                      mergeBreadcrumbsEntries(replayEvents))

\* a merge that leaves out the related events without a spans-typed entry
MergeSkipsEventsWithoutSpans(event, rrwebEvents, replayEvents) ==
    LET with == SelectSeq(replayEvents,
                    LAMBDA e : IsDefined(FindReplayEventEntity(e.entries)))
    IN  SuccessState(event,
                     MergedReplayEvent(with),
                     replayEvents,
                     rrwebEvents,
                     mergeBreadcrumbsEntries(replayEvents))

\* the try block after the await: the State it sets, or the State its catch
\* sets when the merge throws
Merge(event, rrwebEvents, replayEvents) ==
    IF SpansThrows(replayEvents)
    THEN ErrorState(Error("TypeError", <<"merge", 0>>))
    ELSE SuccessState(event,
                      MergedReplayEvent(replayEvents),
                      replayEvents,
                      rrwebEvents,
                      mergeBreadcrumbsEntries(replayEvents))

\* a join whose result arrays are filled as the promises are fulfilled
JoinedStateInCompletionOrder(cy) ==
    Merge(RootEvent(cy.input),
          Flat([k \in 1..Len(cy.dlDone) |->
                    AttachmentEvents[cy.dl[cy.dlDone[k]].attachment]]),
          [k \in 1..Len(cy.relDone) |-> EventBody[cy.rel[cy.relDone[k]].event]])

\* the results of the join, in the order of the arrays joined
JoinedState(cy) ==
    Merge(RootEvent(cy.input),
          Flat([i \in 1..Len(cy.dl) |-> AttachmentEvents[cy.dl[i].attachment]]),
          [j \in 1..Len(cy.rel) |-> EventBody[cy.rel[j].event]])

\* a loadEvents without its catch block: a rejection is lost
SettledWithoutCatch(cy, failure) ==
    IF cy.joined /= "pending" THEN None
    ELSE IF AllFulfilled(cy) THEN Some(JoinedState(cy))
    ELSE None

\* a join without the settle-once rule of a promise: every rejection reaches
\* the catch block
SettledOnEveryRejection(cy, failure) ==
    IF IsDefined(failure) THEN Some(ErrorState(Get(failure)))
    ELSE IF cy.joined /= "pending" THEN None
    ELSE IF AllFulfilled(cy) THEN Some(JoinedState(cy))
    ELSE None

\* Promise.all after one more promise settled, failure being that promise's
\* rejection if it was rejected: the State loadEvents sets now, if any.  The
\* first rejection rejects the join; a later one falls on a settled promise.
Settled(cy, failure) ==
    IF cy.joined /= "pending" THEN None
    ELSE IF IsDefined(failure) THEN Some(ErrorState(Get(failure)))
    ELSE IF AllFulfilled(cy) THEN Some(JoinedState(cy))
    ELSE None

\* the handler of one response of cycle c: cy is the cycle with the response
\* recorded
Handle(c, cy, failure) ==
    LET set == Settled(cy, failure)
        hist == IF IsDefined(failure) /\ ~IsDefined(cy.firstFailure)
                THEN [cy EXCEPT !.firstFailure = failure] ELSE cy
    IN  /\ cycles' =
            [cycles EXCEPT ![c] =
                IF IsDefined(set)
                THEN [hist EXCEPT
                        !.joined = IF IsDefined(failure) THEN "rejected"
                                   ELSE "fulfilled",
                        !.published = Append(@, Get(set))]
                ELSE hist]
        /\ state' = IF IsDefined(set) THEN Get(set) ELSE state
        /\ UNCHANGED <<server, props, components>>

-----------------------------------------------------------------------------
(* Actions *)

\* a loadEvents that starts its requests without the setState of lines 149-158
LoadEventsWithoutReset(input) ==
    /\ state' = state
    /\ cycles' = Append(cycles, NewCycle(input))

\* loadEvents up to its await
LoadEvents(input) ==
    /\ state' = InitialState
    /\ cycles' = Append(cycles, NewCycle(input))

\* the effect of the first render
Mount ==
    /\ cycles = <<>>
    /\ LoadEvents(props)
    /\ UNCHANGED <<server, props, components>>

\* a render with another orgId or eventSlug, and the effect it schedules
Rerender(input) ==
    /\ cycles /= <<>>
    /\ Len(cycles) < MaxCycles
    /\ input /= props
    /\ props' = input
    /\ LoadEvents(input)
    /\ UNCHANGED <<server, components>>

\* no request of the cycle is outstanding
Quiescent(cy) ==
    /\ cy.root /= "pending"
    /\ cy.attList /= "pending"
    /\ cy.index /= "pending"
    /\ \A i \in 1..Len(cy.dl) : cy.dl[i].status /= "pending"
    /\ \A j \in 1..Len(cy.rel) : cy.rel[j].status /= "pending"

\* the component is unmounted and, once no request is outstanding, mounted
\* again with the same Options: a new useState and the effect of the first
\* render
Remount ==
    /\ cycles /= <<>>
    /\ Len(cycles) < MaxCycles
    /\ \A c \in 1..Len(cycles) : Quiescent(cycles[c])
    /\ LoadEvents(props)
    /\ UNCHANGED <<server, props, components>>

\* fetchEvent's request settles
EventResponse(c, ok) ==
    /\ cycles[c].root = "pending"
    /\ Handle(c,
              [cycles[c] EXCEPT !.root = IF ok THEN "ok" ELSE "fail"],
              IF ok THEN None ELSE Some(Error("RequestError", <<"event", 0>>)))

\* the attachment list arrives: fetchRRWebEvents filters it and issues one
\* download per attachment kept; Promise.all of no download is fulfilled
AttachmentsResponse(c, ok) ==
    /\ cycles[c].attList = "pending"
    /\ Handle(c,
              [cycles[c] EXCEPT
                  !.attList = IF ok THEN "ok" ELSE "fail",
                  !.dl = IF ok
                         THEN LET ids == RRWebAttachmentIds(server.attachments)
                              IN  [i \in 1..Len(ids) |->
                                     [attachment |-> ids[i], status |-> "pending"]]
                         ELSE <<>>],
              IF ok THEN None
              ELSE Some(Error("RequestError", <<"attachments", 0>>)))

\* one download settles: rejected, or fulfilled with a body that JSON.parse
\* accepts or rejects; dlDone keeps the order in which the promises of the
\* map are fulfilled
DownloadResponse(c, i, result) ==
    /\ i \in 1..Len(cycles[c].dl)
    /\ cycles[c].dl[i].status = "pending"
    /\ Handle(c,
              [cycles[c] EXCEPT
                  !.dl[i].status = result,
                  !.dlDone = IF result = "ok" THEN Append(@, i) ELSE @],
              CASE result = "ok" -> None
                [] result = "fail" -> Some(Error("RequestError", <<"download", i>>))
                [] result = "malformed" -> Some(Error("SyntaxError", <<"download", i>>)))

\* the event index answers: fetchReplayEvents issues one request per
\* descriptor
ReplayEventListResponse(c, ok) ==
    /\ cycles[c].index = "pending"
    /\ Handle(c,
              [cycles[c] EXCEPT
                  !.index = IF ok THEN "ok" ELSE "fail",
                  !.rel = IF ok
                          THEN [j \in 1..Len(server.related) |->
                                  [event |-> server.related[j], status |-> "pending"]]
                          ELSE <<>>],
              IF ok THEN None
              ELSE Some(Error("RequestError", <<"eventsv2", 0>>)))

\* the request of one related event settles; relDone keeps the order in which
\* the requests are fulfilled
ReplayEventResponse(c, j, ok) ==
    /\ j \in 1..Len(cycles[c].rel)
    /\ cycles[c].rel[j].status = "pending"
    /\ Handle(c,
              [cycles[c] EXCEPT
                  !.rel[j].status = IF ok THEN "ok" ELSE "fail",
                  !.relDone = IF ok THEN Append(@, j) ELSE @],
              IF ok THEN None
              ELSE Some(Error("RequestError", <<"related", j>>)))

-----------------------------------------------------------------------------
(* Specifications *)

\* the hook rendered once, with any input, against any backend content
InitCycle ==
    /\ server \in Servers
    /\ props \in ValidInputs \cup MalformedInputs
    /\ state = InitialState
    /\ cycles = <<>>
    /\ selector = None /\ widget = None /\ modal = None

NextCycle ==
    \/ Mount
    \/ \E c \in 1..Len(cycles), ok \in BOOLEAN : EventResponse(c, ok)
    \/ \E c \in 1..Len(cycles), ok \in BOOLEAN : AttachmentsResponse(c, ok)
    \/ \E c \in 1..Len(cycles), i \in 1..MaxItems,
           result \in {"ok", "fail", "malformed"} : DownloadResponse(c, i, result)
    \/ \E c \in 1..Len(cycles), ok \in BOOLEAN : ReplayEventListResponse(c, ok)
    \/ \E c \in 1..Len(cycles), j \in 1..MaxItems, ok \in BOOLEAN :
            ReplayEventResponse(c, j, ok)

SpecCycle == InitCycle /\ [][NextCycle]_vars

\* every request issued is answered in the end
SpecCycleFair == SpecCycle /\ WF_vars(NextCycle)

\* the hook rendered again with other inputs while earlier cycles are in flight
Init ==
    /\ server \in SmallServers
    /\ props = Input("org", <<"1", ":", "a">>)
    /\ state = InitialState
    /\ cycles = <<>>
    /\ selector = None /\ widget = None /\ modal = None

Next ==
    \/ \E input \in ValidInputs : Rerender(input)
    \/ NextCycle

Spec == Init /\ [][Next]_vars

\* the hook used again with the same inputs
NextReload ==
    \/ Remount
    \/ NextCycle

SpecReload == Init /\ [][NextReload]_vars

-----------------------------------------------------------------------------
(* Vocabulary of the properties *)

Cycles == {cycles[c] : c \in 1..Len(cycles)}

\* some request of the cycle was rejected, or a download's body did not parse
HasFailure(cy) ==
    \/ cy.root = "fail"
    \/ cy.attList = "fail"
    \/ \E i \in 1..Len(cy.dl) : cy.dl[i].status \in {"fail", "malformed"}
    \/ cy.index = "fail"
    \/ \E j \in 1..Len(cy.rel) : cy.rel[j].status = "fail"

\* every request of the three branches was answered successfully
AllSucceeded(cy) ==
    /\ cy.root = "ok" /\ cy.attList = "ok" /\ cy.index = "ok"
    /\ \A i \in 1..Len(cy.dl) : cy.dl[i].status = "ok"
    /\ \A j \in 1..Len(cy.rel) : cy.rel[j].status = "ok"

NoData(s) ==
    /\ s.event = None
    /\ s.replayEvents = None
    /\ s.rrwebEvents = None
    /\ s.mergedReplayEvent = None

AllData(s) ==
    /\ s.event /= None
    /\ s.replayEvents /= None
    /\ s.rrwebEvents /= None
    /\ s.mergedReplayEvent /= None

IsSuccess(s) == s.fetching = FALSE /\ s.fetchError = None /\ AllData(s)

-----------------------------------------------------------------------------
(* C1 *)

\* C1: if any request of a cycle fails, the snapshot that cycle publishes has
\* fetching = false, fetchError equal to the first failure, and event,
\* replayEvents, rrwebEvents, mergedReplayEvent and breadcrumbEntry undefined.
C1_FailureAbortsCycle ==
    \A cy \in Cycles :
        HasFailure(cy) =>
            /\ cy.published /= <<>>
            /\ \A k \in 1..Len(cy.published) :
                LET s == cy.published[k]
                IN  /\ s.fetching = FALSE
                    /\ s.fetchError /= None
                    /\ s.fetchError = cy.firstFailure
                    /\ NoData(s)
                    /\ s.breadcrumbEntry = None

\* the root event arrived, then a download's body failed to parse
C1_Witness ==
    \E cy \in Cycles :
        /\ cy.root = "ok"
        /\ cy.index = "ok"
        /\ \E i \in 1..Len(cy.dl) : cy.dl[i].status = "malformed"
        /\ cy.published /= <<>>
        /\ state.fetchError = Some(Error("SyntaxError", <<"download", 1>>))


-----------------------------------------------------------------------------
(* C2 *)

\* C2: a cycle that completes after a newer cycle has started does not change
\* the snapshot: the snapshot is the reset or the one set by the newest
\* cycle, and the event it shows is the event of the current eventSlug.
C2_StaleResultsDiscarded ==
    cycles /= <<>> =>
        LET newest == cycles[Len(cycles)]
        IN  /\ state = IF newest.published = <<>> THEN InitialState
                       ELSE newest.published[Len(newest.published)]
            /\ state.event /= None =>
                    Get(state.event).eventSlug = props.eventSlug

-----------------------------------------------------------------------------
(* C3 *)

RECURSIVE FirstSpansData(_)
\* the data of the first spans-typed entry of a list of entries
FirstSpansData(entries) ==
    IF entries = <<>> THEN <<>>
    ELSE IF Head(entries).type = "spans" THEN Head(entries).data
    ELSE FirstSpansData(Tail(entries))

RECURSIVE ConcatFirstSpans(_)
ConcatFirstSpans(events) ==
    IF events = <<>> THEN <<>>
    ELSE FirstSpansData(Head(events).entries) \o ConcatFirstSpans(Tail(events))

\* C3: on a successful cycle the one spans entry of mergedReplayEvent holds
\* the data of the first spans-typed entry of each related event, in
\* related-event order and then in intra-event order, and endTimestamp is
\* the timestamp of the last span of that sequence; for related events
\* [A, B] the spans are [s1, s2, s3] and endTimestamp is that of s3.
C3_MergedSpans ==
    \A cy \in Cycles : \A k \in 1..Len(cy.published) :
        LET s == cy.published[k]
        IN  IsSuccess(s) =>
                LET events == Get(s.replayEvents)
                    merged == Get(s.mergedReplayEvent)
                    expected == ConcatFirstSpans(events)
                IN  /\ events = [j \in 1..Len(server.related) |->
                                    EventBody[server.related[j]]]
                    /\ Len(merged.entries) = 1
                    /\ merged.entries[1].type = "spans"
                    /\ merged.entries[1].data = expected
                    /\ merged.endTimestamp =
                            IF expected = <<>> THEN None
                            ELSE Some(expected[Len(expected)].timestamp)
                    /\ server.related = <<"A", "B">> =>
                            /\ [i \in 1..Len(merged.entries[1].data) |->
                                    merged.entries[1].data[i].id]
                                    = <<"s1", "s2", "s3">>
                            /\ merged.endTimestamp = Some(20)

\* the related events [A, B] were merged and published
C3_Witness ==
    /\ server.related = <<"A", "B">>
    /\ IsSuccess(state)
    /\ Len(Get(state.mergedReplayEvent).entries[1].data) = 3

-----------------------------------------------------------------------------
(* C4 *)

\* C4: when the event index returns no related event and the other two
\* branches succeed, the cycle publishes a success snapshot whose
\* mergedReplayEvent has an empty span sequence and no endTimestamp.
C4_EmptyRelatedEvents ==
    \A cy \in Cycles :
        (AllSucceeded(cy) /\ cy.rel = <<>>) =>
            /\ Len(cy.published) = 1
            /\ LET s == cy.published[1]
               IN  /\ s.fetchError = None
                   /\ s.fetching = FALSE
                   /\ s.replayEvents = Some(<<>>)
                   /\ s.mergedReplayEvent /= None
                   /\ Get(s.mergedReplayEvent).entries[1].data = <<>>
                   /\ Get(s.mergedReplayEvent).endTimestamp = None

\* attachments were downloaded, no related event exists, and the snapshot is set
C4_Witness ==
    /\ server.related = <<>>
    /\ server.attachments /= <<>>
    /\ \E cy \in Cycles : AllSucceeded(cy) /\ cy.dl /= <<>>
    /\ state.fetching = FALSE
    /\ state.replayEvents = Some(<<>>)

-----------------------------------------------------------------------------
(* C5 *)

\* a name of exactly the form rrweb-<13 decimal digits>.json
ExactRRWebName(name) ==
    /\ Len(name) = 24
    /\ SubSeq(name, 1, 6) = <<"r", "r", "w", "e", "b", "-">>
    /\ \A k \in 7..19 : IsDigit(name[k])
    /\ SubSeq(name, 20, 24) = <<".", "j", "s", "o", "n">>

HasExactRRWebName(attachment) == ExactRRWebName(AttachmentName[attachment])

\* C5: the attachments selected (here for a well-formed slug) are exactly
\* those whose name has the exact form rrweb-<13 digits>.json, in the order
\* of the list received.
C5_ExactNameFilter ==
    \A cy \in Cycles :
        (cy.input \in ValidInputs /\ cy.attList = "ok") =>
            [i \in 1..Len(cy.dl) |-> cy.dl[i].attachment]
                = SelectSeq(server.attachments, HasExactRRWebName)

-----------------------------------------------------------------------------
(* C6 *)

\* C6: downloads are requested only once the attachment list has arrived,
\* one per attachment the filter keeps, in list order; an attachment the
\* filter rejects (other.json) is never requested.
C6_OnlySelectedDownloaded ==
    \A cy \in Cycles :
        /\ cy.attList /= "ok" => cy.dl = <<>>
        /\ cy.attList = "ok" =>
                [i \in 1..Len(cy.dl) |-> cy.dl[i].attachment]
                    = SelectSeq(server.attachments, isRRWebEventAttachment)
        /\ \A i \in 1..Len(cy.dl) : isRRWebEventAttachment(cy.dl[i].attachment)
        /\ \A r \in Requests(cy) : "id" \in DOMAIN r => r.id /= "a2"

\* of the list [a1, a2] (rrweb-1670000000001.json, other.json) only a1 was
\* downloaded
C6_Witness ==
    /\ server.attachments = <<"a1", "a2">>
    /\ \E cy \in Cycles :
            /\ cy.attList = "ok"
            /\ cy.dl = <<[attachment |-> "a1", status |-> "ok"]>>

-----------------------------------------------------------------------------
(* C7 *)

\* C7: a slug <projectId>:<eventId> is split into its two parts; for a
\* malformed slug (no colon, an empty part, more than one colon) the cycle
\* fails with an error and issues no request.
C7_SlugValidated ==
    \A cy \in Cycles :
        LET slug == cy.input.eventSlug
            colons == {k \in 1..Len(slug) : slug[k] = ":"}
        IN  IF Cardinality(colons) = 1 /\ 1 \notin colons /\ Len(slug) \notin colons
            THEN LET k == CHOOSE k \in colons : TRUE
                 IN  /\ cy.projectId = Some(SubSeq(slug, 1, k - 1))
                     /\ cy.eventId = Some(SubSeq(slug, k + 1, Len(slug)))
            ELSE /\ Requests(cy) = {}
                 /\ cy.published /= <<>>
                 /\ cy.published[1].fetchError /= None

-----------------------------------------------------------------------------
(* C8 *)

\* C8: the first request of each of the three branches is issued when the
\* cycle starts, before any response is handled, and a success snapshot is
\* published only when every request of the three branches has succeeded.
C8_StartedTogetherJoinedLast ==
    \A cy \in Cycles :
        /\ cy.root /= "unissued"
        /\ cy.attList /= "unissued"
        /\ cy.index /= "unissued"
        /\ (\E k \in 1..Len(cy.published) : cy.published[k].fetchError = None)
                => AllSucceeded(cy)

\* a cycle with downloads and related events published its success snapshot
C8_Witness ==
    \E cy \in Cycles :
        /\ cy.dl /= <<>>
        /\ cy.rel /= <<>>
        /\ cy.published /= <<>>
        /\ IsSuccess(cy.published[1])

-----------------------------------------------------------------------------
(* C9 *)

\* C9: while some cycle has started and has neither completed nor failed,
\* fetching is true.
C9_FetchingWhileInFlight ==
    (\E cy \in Cycles : cy.joined = "pending") => state.fetching = TRUE

-----------------------------------------------------------------------------
(* C10 *)

\* C10: event, replayEvents, rrwebEvents and mergedReplayEvent are all
\* defined or all undefined, and all undefined whenever fetchError is set
\* and whenever fetching is true.
C10_AllOrNothing ==
    /\ AllData(state) \/ NoData(state)
    /\ state.fetchError /= None => NoData(state)
    /\ state.fetching = TRUE => NoData(state)

\* a success snapshot of the first cycle, set while the second is in flight
C10_Witness ==
    /\ Len(cycles) = 2
    /\ cycles[2].joined = "pending"
    /\ IsSuccess(state)


-----------------------------------------------------------------------------
(* C11 *)

\* the answers a cycle has received, request by request
Responses(cy) == <<cy.root, cy.attList, cy.dl, cy.index, cy.rel>>

\* C11, first two parts: a cycle that has not yet published anything has
\* reset the snapshot (fetching = true, no error, no data), every cycle has
\* issued its own three first requests, and a success snapshot is published
\* by a cycle only when its own requests have all succeeded.
RecomputedFromScratch ==
    /\ \A c \in 1..Len(cycles) :
        /\ cycles[c].root /= "unissued"
        /\ cycles[c].attList /= "unissued"
        /\ cycles[c].index /= "unissued"
        /\ (\E k \in 1..Len(cycles[c].published) :
                cycles[c].published[k].fetchError = None)
                    => AllSucceeded(cycles[c])
    /\ (cycles /= <<>> /\ cycles[Len(cycles)].published = <<>>) =>
            /\ state.fetching = TRUE
            /\ state.fetchError = None
            /\ NoData(state)
            /\ state.breadcrumbEntry = None

\* C11 as stated: re-invoking the load for the same inputs resets the
\* snapshot, re-issues every request and, given the same responses, publishes
\* the same snapshot as the earlier cycle.
C11_SameResponsesSameSnapshot ==
    /\ RecomputedFromScratch
    /\ \A c1, c2 \in 1..Len(cycles) :
        ( /\ c1 < c2
          /\ cycles[c1].input = cycles[c2].input
          /\ Responses(cycles[c1]) = Responses(cycles[c2])
          /\ cycles[c1].joined /= "pending"
          /\ cycles[c2].joined /= "pending" )
            => cycles[c1].published = cycles[c2].published

\* C11 amended: ... given the same responses and, when requests fail, the
\* same request failing first, publishes the same snapshot as the earlier
\* cycle.
C11_SameResponsesSameFirstFailure ==
    /\ RecomputedFromScratch
    /\ \A c1, c2 \in 1..Len(cycles) :
        ( /\ c1 < c2
          /\ cycles[c1].input = cycles[c2].input
          /\ Responses(cycles[c1]) = Responses(cycles[c2])
          /\ cycles[c1].firstFailure = cycles[c2].firstFailure
          /\ cycles[c1].joined /= "pending"
          /\ cycles[c2].joined /= "pending" )
            => cycles[c1].published = cycles[c2].published

\* two cycles for the same inputs received the same successful responses and
\* published the same success snapshot
C11_Witness ==
    /\ Len(cycles) = 2
    /\ cycles[1].input = cycles[2].input
    /\ AllSucceeded(cycles[1])
    /\ Responses(cycles[1]) = Responses(cycles[2])
    /\ IsSuccess(state)
    /\ cycles[2].published = <<state>>

-----------------------------------------------------------------------------
(* C12 *)

\* C12: whatever the order in which the concurrent fetches complete, a
\* success snapshot lists replayEvents in the order of the descriptors the
\* event index returned and rrwebEvents in the order of the filtered
\* attachment list.
C12_ResultsInListOrder ==
    \A cy \in Cycles : \A k \in 1..Len(cy.published) :
        cy.published[k].fetchError = None =>
            /\ cy.published[k].replayEvents =
                    Some([j \in 1..Len(server.related) |->
                            EventBody[server.related[j]]])
            /\ cy.published[k].rrwebEvents =
                    Some(Flat([i \in 1..Len(RRWebAttachmentIds(server.attachments)) |->
                            AttachmentEvents[RRWebAttachmentIds(server.attachments)[i]]]))

\* two related events of different content were fetched, the second answered
\* first, and the success snapshot is published
C12_WitnessRelated ==
    \E cy \in Cycles :
        /\ cy.relDone = <<2, 1>>
        /\ cy.rel[1].event /= cy.rel[2].event
        /\ cy.published /= <<>>
        /\ IsSuccess(state)

\* two attachments were downloaded, the second answered first, and the
\* success snapshot is published
C12_WitnessDownloads ==
    \E cy \in Cycles :
        /\ cy.dlDone = <<2, 1>>
        /\ cy.dl[1].attachment /= cy.dl[2].attachment
        /\ cy.published /= <<>>
        /\ IsSuccess(state)

-----------------------------------------------------------------------------
(* C13 *)

\* some related event the cycle fetched has no spans-typed entry
LacksSpans(cy) ==
    \E j \in 1..Len(cy.rel) :
        \A k \in 1..Len(EventBody[cy.rel[j].event].entries) :
            EventBody[cy.rel[j].event].entries[k].type /= "spans"

\* C13: when the three branches of a cycle have succeeded and some related
\* event has no spans-typed entry, the cycle has published one snapshot, with
\* fetchError set, fetching = false and every data field undefined: the event
\* is not skipped and no success snapshot is built from the other events.
C13_MissingSpansIsFailure ==
    \A cy \in Cycles :
        (AllSucceeded(cy) /\ LacksSpans(cy)) =>
            /\ Len(cy.published) = 1
            /\ cy.published[1].fetchError /= None
            /\ cy.published[1].fetching = FALSE
            /\ NoData(cy.published[1])
            /\ cy.published[1].breadcrumbEntry = None

\* every request succeeded, one of two related events has spans and the other
\* has none, and the error snapshot is the one shown
C13_Witness ==
    \E cy \in Cycles :
        /\ AllSucceeded(cy)
        /\ LacksSpans(cy)
        /\ \E j \in 1..Len(cy.rel) :
                IsDefined(FindReplayEventEntity(EventBody[cy.rel[j].event].entries))
        /\ cy.published = <<state>>
        /\ state.fetchError /= None

-----------------------------------------------------------------------------
(* C14 *)

\* a cycle publishes at most one snapshot, a terminal one, which is either the
\* success snapshot or the error snapshot
AtMostOneTerminalSnapshot ==
    \A cy \in Cycles :
        /\ Len(cy.published) <= 1
        /\ \A k \in 1..Len(cy.published) :
            /\ cy.published[k].fetching = FALSE
            /\ (cy.published[k].fetchError = None) = AllData(cy.published[k])
            /\ (cy.published[k].fetchError /= None) = NoData(cy.published[k])

\* a request that was answered is not issued again, and a snapshot published
\* is followed by no other of the same cycle
NoRetry ==
    \A c \in 1..Len(cycles) :
        /\ cycles[c].root \in {"ok", "fail"} => cycles'[c].root = cycles[c].root
        /\ cycles[c].attList \in {"ok", "fail"} =>
                /\ cycles'[c].attList = cycles[c].attList
                /\ Len(cycles'[c].dl) = Len(cycles[c].dl)
        /\ cycles[c].index \in {"ok", "fail"} =>
                /\ cycles'[c].index = cycles[c].index
                /\ Len(cycles'[c].rel) = Len(cycles[c].rel)
        /\ \A i \in 1..Len(cycles[c].dl) :
                cycles[c].dl[i].status /= "pending" =>
                    cycles'[c].dl[i] = cycles[c].dl[i]
        /\ \A j \in 1..Len(cycles[c].rel) :
                cycles[c].rel[j].status /= "pending" =>
                    cycles'[c].rel[j] = cycles[c].rel[j]
        /\ cycles[c].published /= <<>> =>
                cycles'[c].published = cycles[c].published

\* C14: when every request issued is answered in the end, a cycle that has
\* started eventually publishes a snapshot with fetching = false, and it
\* publishes exactly one, the success snapshot or the error snapshot, also
\* when another branch fails after the first failure; no request is retried.
C14_ExactlyOneTerminalSnapshot ==
    /\ []AtMostOneTerminalSnapshot
    /\ [][NoRetry]_vars
    /\ (cycles /= <<>>) ~> (cycles /= <<>> /\ Len(cycles[1].published) = 1)

\* two branches of a cycle have failed, one after the other, and the cycle has
\* published one snapshot, the error of the first failure
C14_Witness ==
    \E cy \in Cycles :
        /\ cy.root = "fail"
        /\ cy.attList = "fail"
        /\ cy.firstFailure = Some(Error("RequestError", <<"attachments", 0>>))
        /\ cy.published = <<state>>
        /\ state.fetching = FALSE

-----------------------------------------------------------------------------
(* TeamSelector (ruleModal.tsx, lines 280-563) *)

\* the hook is not rendered
HookNotRendered ==
    /\ server = [attachments |-> <<>>, related |-> <<>>]
    /\ props = Input("org", <<"1", ":", "a">>)
    /\ state = InitialState
    /\ cycles = <<>>

\* calls of handleAddTeamToProject in one behaviour
MaxClicks == 2

\* a JavaScript value passed as the value prop or to onChange: its shape, the
\* shape of what it wraps, and the strings it holds
Val(shape, of, content) == [shape |-> shape, of |-> of, content |-> content]

Undefined == Val("undefined", "", <<>>)

Str(s) == Val("string", "", <<s>>)

Arr(items) == Val("array", "", items)

\* the object literal {value}
ValueObject(v) == Val("{value}", v.shape, v.content)

\* [...(value ?? [])]
ArrayCopy(v) == IF v.shape = "undefined" THEN Arr(<<>>) ELSE Arr(v.content)

\* the teams of the organization; project.teams holds the first
Teams ==
    << [id |-> "1", slug |-> "alpha"],
       [id |-> "2", slug |-> "beta"],
       [id |-> "3", slug |-> "gamma"] >>

ProjectTeamIds == {"1"}

\* the values a parent passes as the value prop
PropValues(multiple, useId) ==
    IF multiple
    THEN {Undefined, Arr(<<>>)}
            \cup {Arr(<<IF useId THEN Teams[k].id ELSE Teams[k].slug>>) : k \in 1..2}
    ELSE {Undefined}
            \cup {Str(IF useId THEN Teams[k].id ELSE Teams[k].slug) : k \in 1..2}

createTeamOption(team, useId) ==
    [ shape |-> "TeamOption",
      of |-> "string",
      content |-> <<IF useId THEN team.id ELSE team.slug>>,
      actor |-> team.id,
      disabled |-> FALSE ]

\* an option whose label carries the add-to-project button
createTeamOutsideProjectOption(team, useId) ==
    [createTeamOption(team, useId) EXCEPT !.disabled = TRUE]

getInitialOptions(project, useId) ==
    IF project
    THEN SelectSeq([k \in 1..Len(Teams) |-> createTeamOption(Teams[k], useId)],
                   LAMBDA o : o.actor \in ProjectTeamIds)
         \o SelectSeq([k \in 1..Len(Teams) |->
                            createTeamOutsideProjectOption(Teams[k], useId)],
                      LAMBDA o : o.actor \notin ProjectTeamIds)
    ELSE [k \in 1..Len(Teams) |-> createTeamOption(Teams[k], useId)]

\* no call of handleAddTeamToProject so far
NoCall ==
    [ status |-> "none", team |-> Teams[1], oldValue |-> Undefined,
      valueAtClick |-> Undefined ]

\* the component after its first render and the effect of that render: the
\* options, and with them the click handlers of their buttons, are built in
\* the first render, where value is the first value and options is []
MountedSelector(project, multiple, useId, value) ==
    [ project |-> project,
      multiple |-> multiple,
      useId |-> useId,
      value |-> value,
      options |-> getInitialOptions(project, useId),
      closure |-> [value |-> value, options |-> <<>>],
      reported |-> <<>>,
      requests |-> <<>>,
      call |-> NoCall,
      clicks |-> 0 ]

\* the parent renders the component with another value; the effect's
\* dependencies (teams, teamFilter, project, includeUnassigned) are the same,
\* so the options and their handlers stay those of the earlier render
ParentRendersValue(v) ==
    /\ v /= selector.value
    /\ selector' = [selector EXCEPT !.value = v]
    /\ UNCHANGED <<server, props, state, cycles, widget, modal>>

\* a render in which a dependency of the effect has changed (a new teams array
\* or teamFilter): the effect builds the options again, with the handlers of
\* this render
OptionsEffect ==
    /\ selector.call.status /= "pending"
    /\ selector' = [selector EXCEPT
            !.options = getInitialOptions(selector.project, selector.useId),
            !.closure = [value |-> selector.value, options |-> selector.options]]
    /\ UNCHANGED <<server, props, state, cycles, widget, modal>>

\* the options after a successful add: those the handler's render saw, the
\* team's option enabled in place
EnableTeam(opts, team) ==
    [k \in 1..Len(opts) |->
        IF opts[k].actor = team.id THEN [opts[k] EXCEPT !.disabled = FALSE]
        ELSE opts[k]]

\* handleAddTeamToProject up to its await.  With a project it is the click on
\* the button of a team outside the project; without one no option carries
\* the button and the function returns at once.
handleAddTeamToProject(team) ==
    /\ selector.clicks < MaxClicks
    /\ selector.call.status /= "pending"
    /\ selector.project =>
            \E k \in 1..Len(selector.options) :
                /\ selector.options[k].actor = team.id
                /\ selector.options[k].disabled
    /\ LET seen == [team |-> team, valueAtClick |-> selector.value]
       IN  selector' =
            IF ~selector.project
            THEN [selector EXCEPT
                    !.clicks = @ + 1,
                    !.call = seen @@ [status |-> "returned", oldValue |-> Undefined]]
            ELSE [selector EXCEPT
                    !.clicks = @ + 1,
                    !.reported = Append(@, createTeamOption(team, selector.useId)),
                    !.requests = Append(@, team.id),
                    !.call = seen @@
                        [ status |-> "pending",
                          oldValue |-> IF selector.multiple
                                       THEN ArrayCopy(selector.closure.value)
                                       ELSE ValueObject(selector.closure.value) ]]
    /\ UNCHANGED <<server, props, state, cycles, widget, modal>>

\* addTeamToProject settles and handleAddTeamToProject runs to its end
AddTeamResponse(ok) ==
    /\ selector.call.status = "pending"
    /\ selector' =
        IF ok
        THEN [selector EXCEPT
                !.options = EnableTeam(selector.closure.options, selector.call.team),
                !.closure.options = EnableTeam(@, selector.call.team),
                !.call.status = "added"]
        ELSE [selector EXCEPT
                !.reported = Append(@, selector.call.oldValue),
                !.call.status = "failed"]
    /\ UNCHANGED <<server, props, state, cycles, widget, modal>>

InitTeamSelector ==
    /\ HookNotRendered
    /\ widget = None /\ modal = None
    /\ \E project, multiple, useId \in BOOLEAN :
        \E value \in PropValues(multiple, useId) :
            selector = MountedSelector(project, multiple, useId, value)

NextTeamSelector ==
    \/ \E v \in PropValues(selector.multiple, selector.useId) : ParentRendersValue(v)
    \/ OptionsEffect
    \/ \E k \in 1..Len(Teams) : handleAddTeamToProject(Teams[k])
    \/ \E ok \in BOOLEAN : AddTeamResponse(ok)

SpecTeamSelector == InitTeamSelector /\ [][NextTeamSelector]_vars

-----------------------------------------------------------------------------
(* C15 *)

\* the steps of handleAddTeamToProject
Clicked == selector'.clicks = selector.clicks + 1

Failed == selector.call.status = "pending" /\ selector'.call.status = "failed"

\* the parts of C15 beside the revert: with a project the click calls
\* onChange with the added team's option and issues the request, which
\* settles in a later step; without a project the click calls neither; a
\* failed add calls onChange once more and leaves the options as they were
OptimisticUpdate ==
    /\ (Clicked /\ selector.project) =>
            /\ selector'.reported =
                    Append(selector.reported,
                           createTeamOption(selector'.call.team, selector.useId))
            /\ selector'.requests = Append(selector.requests, selector'.call.team.id)
            /\ selector'.call.status = "pending"
    /\ (Clicked /\ ~selector.project) =>
            /\ selector'.reported = selector.reported
            /\ selector'.requests = selector.requests
            /\ selector'.call.status = "returned"
    /\ Failed =>
            /\ Len(selector'.reported) = Len(selector.reported) + 1
            /\ selector'.requests = selector.requests
            /\ selector'.options = selector.options

\* C15: handleAddTeamToProject is an optimistic update with revert: with a
\* project, onChange is called with the added team's option before the
\* request settles; after a failed add the last value reported to the parent
\* is the value the parent had supplied before the click, in the same shape,
\* and the options are unchanged; without a project neither onChange nor a
\* request happens.
C15_RevertsToValueBeforeClick ==
    [][ /\ OptimisticUpdate
        /\ Failed => selector'.reported[Len(selector'.reported)]
                        = selector.call.valueAtClick ]_vars

\* C15 without the shape: after a failed add the last value reported holds
\* the strings of the value the parent had supplied before the click
C15_RevertsToContentBeforeClick ==
    [][ Failed => selector'.reported[Len(selector'.reported)].content
                        = selector.call.valueAtClick.content ]_vars

\* the parts of C15 that hold
C15_OptimisticUpdate == [][OptimisticUpdate]_vars

\* C15 for a multiple selector whose handlers are those of the current
\* value: the value reported after a failed add is a copy of the array the
\* parent had supplied
C15_RevertsArrayOfCurrentRender ==
    [][ ( /\ Failed
          /\ selector.multiple
          /\ selector.call.valueAtClick.shape = "array"
          /\ selector.call.oldValue = ArrayCopy(selector.call.valueAtClick) )
            => selector'.reported[Len(selector'.reported)]
                    = selector.call.valueAtClick ]_vars

-----------------------------------------------------------------------------
(* Queries (dashboardsV2/widget/new/eventSteps/queries.tsx) *)

\* the members of DisplayType the component names
DisplayType ==
    {"line", "area", "stacked_area", "bar", "table", "world_map", "big_number"}

QueryLimit == 3

\* a WidgetQuery
WidgetQuery(name, conditions) == [name |-> name, conditions |-> conditions]

FieldValues == {"", "x"}

WidgetQueries == {WidgetQuery(n, c) : n \in FieldValues, c \in FieldValues}

\* a canAddNewQuery that lets a query be added at the limit
canAddNewQueryAtLimit(displayType, queries) ==
    /\ displayType \in {"line", "area", "stacked_area", "bar"}
    /\ Len(queries) <= QueryLimit

canAddNewQuery(displayType, queries) ==
    LET rightDisplayType == displayType \in {"line", "area", "stacked_area", "bar"}
        underQueryLimit == Len(queries) < QueryLimit
    IN  rightDisplayType /\ underQueryLimit

\* what the component renders for its props: the Add Query button, and the
\* rows that carry a Remove button
Queries(displayType, queries) ==
    [ displayType |-> displayType,
      queries |-> queries,
      addQuery |-> canAddNewQuery(displayType, queries),
      removeQuery |-> {queryIndex \in 1..Len(queries) : Len(queries) > 1},
      last |-> "render" ]

\* the parent's onAddQuery: one query appended
onAddQuery(queries) == Append(queries, WidgetQuery("", ""))

\* the parent's onRemoveQuery: the query at the index deleted
onRemoveQuery(queries, index) ==
    [k \in 1..(Len(queries) - 1) |-> IF k < index THEN queries[k] ELSE queries[k + 1]]

\* the parent's onChangeQuery: the query at the index replaced
onChangeQuery(queries, queryIndex, eventQuery) ==
    [queries EXCEPT ![queryIndex] = eventQuery]

\* a click on Add Query, and the render with the parent's new queries
ClickAddQuery ==
    /\ widget.addQuery
    /\ widget' = [Queries(widget.displayType, onAddQuery(widget.queries))
                    EXCEPT !.last = "add"]
    /\ UNCHANGED <<server, props, state, cycles, selector, modal>>

\* a click on the Remove button of a row
ClickRemoveQuery(queryIndex) ==
    /\ queryIndex \in widget.removeQuery
    /\ widget' = [Queries(widget.displayType,
                          onRemoveQuery(widget.queries, queryIndex))
                    EXCEPT !.last = "remove"]
    /\ UNCHANGED <<server, props, state, cycles, selector, modal>>

\* handleFieldChange(queryIndex, field)(value)
handleFieldChange(queryIndex, field, value) ==
    /\ queryIndex \in 1..Len(widget.queries)
    /\ LET widgetQuery == widget.queries[queryIndex]
           newQuery == [widgetQuery EXCEPT ![field] = value]
       IN  /\ newQuery /= widgetQuery
           /\ widget' = [Queries(widget.displayType,
                                 onChangeQuery(widget.queries, queryIndex, newQuery))
                            EXCEPT !.last = "change"]
    /\ UNCHANGED <<server, props, state, cycles, selector, modal>>

\* the component rendered with any display type and one to QueryLimit queries
InitQueries ==
    /\ HookNotRendered
    /\ selector = None /\ modal = None
    /\ \E displayType \in DisplayType :
        \E n \in 1..QueryLimit : \E queries \in [1..n -> WidgetQueries] :
            widget = Queries(displayType, queries)

NextQueries ==
    \/ ClickAddQuery
    \/ \E queryIndex \in 1..(QueryLimit + 1) : ClickRemoveQuery(queryIndex)
    \/ \E queryIndex \in 1..(QueryLimit + 1), field \in {"name", "conditions"},
            value \in FieldValues : handleFieldChange(queryIndex, field, value)

SpecQueries == InitQueries /\ [][NextQueries]_vars

-----------------------------------------------------------------------------
(* C16 *)

\* C16: Add Query is offered exactly when the display type is line, area,
\* stacked area or bar and there are fewer than 3 queries; Remove is offered,
\* on every row, exactly when there is more than 1 query; and so, with a
\* parent that appends one query per onAddQuery and deletes the indexed one
\* per onRemoveQuery, the number of queries stays between 1 and 3.
C16_QueryCountStaysInRange ==
    /\ widget.addQuery =
            ( /\ widget.displayType \in {"line", "area", "stacked_area", "bar"}
              /\ Len(widget.queries) \in {0, 1, 2} )
    /\ widget.removeQuery =
            (IF Len(widget.queries) >= 2 THEN 1..Len(widget.queries) ELSE {})
    /\ Len(widget.queries) \in {1, 2, 3}

\* a query was added and the limit is reached: Add Query is no longer offered
C16_Witness ==
    /\ widget.last = "add"
    /\ Len(widget.queries) = 3
    /\ ~widget.addQuery

\* a query was removed and one is left: Remove is no longer offered
C16_WitnessRemove ==
    /\ widget.last = "remove"
    /\ Len(widget.queries) = 1
    /\ widget.removeQuery = {}

-----------------------------------------------------------------------------
(* RuleModal (ruleModal.tsx, lines 1-278) *)

\* calls of submitRules, and conditions added, in one behaviour
MaxSubmits == 2

MaxConditions == 2

\* a call the component makes: of a prop, of addErrorMessage, or an exception
\* that leaves submitRules
Call(fn, arg) == [fn |-> fn, arg |-> arg]

\* the categories of condition: one that needs a match, one that needs none
Categories == {"event.release", "event.is_local_ip"}

Condition(category, match) == [category |-> category, match |-> match]

\* the rule prop: none, or a rule to edit
Rules ==
    {None,
     Some([conditions |-> <<Condition("event.release", "1.0")>>, sampleRate |-> 50])}

getInitialState(rule) ==
    IF IsDefined(rule)
    THEN [ conditions |-> Get(rule).conditions,
           sampleRate |-> Some(Get(rule).sampleRate),
           errors |-> [sampleRate |-> None] ]
    ELSE [ conditions |-> <<>>,
           sampleRate |-> None,
           errors |-> [sampleRate |-> None] ]

submitDisabled(data) ==
    \/ ~IsDefined(data.sampleRate)
    \/ \E k \in 1..Len(data.conditions) :
            /\ data.conditions[k].category /= "event.is_local_ip"
            /\ data.conditions[k].match = ""

\* the responses of the backend to the PUT
PutResponses == {"ok", "invalid sampleRate", "server error"}

\* the error handleXhrErrorResponse makes of a rejected PUT
handleXhrErrorResponse(error) ==
    IF error = "invalid sampleRate"
    THEN [type |-> "sampleRate", message |-> "invalid sample rate"]
    ELSE [type |-> "unknown", message |-> "an internal error occurred"]

\* a convertErrorXhrResponse whose sampleRate case sets the field error with
\* setData
convertErrorXhrResponseWithSetData(m, error) ==
    IF error.type = "sampleRate"
    THEN [m EXCEPT !.data.errors.sampleRate = Some(error.message)]
    ELSE [m EXCEPT !.calls = Append(@, Call("addErrorMessage", error.message))]

\* convertErrorXhrResponse: the sampleRate case calls setErrors, which the
\* component does not define (its only setter is setData): the call throws a
\* ReferenceError out of the catch block of submitRules
convertErrorXhrResponse(m, error) ==
    IF error.type = "sampleRate"
    THEN [m EXCEPT !.calls = Append(@, Call("throw", "ReferenceError: setErrors"))]
    ELSE [m EXCEPT !.calls = Append(@, Call("addErrorMessage", error.message))]

\* the modal after its first render
OpenedModal(rule) ==
    [ rule |-> rule,
      data |-> getInitialState(rule),
      open |-> TRUE,
      request |-> "none",
      error |-> handleXhrErrorResponse("server error"),
      calls |-> <<>>,
      submits |-> 0 ]

handleAddCondition(category) ==
    /\ modal.open
    /\ Len(modal.data.conditions) < MaxConditions
    /\ modal' = [modal EXCEPT
            !.data.conditions = Append(@, Condition(category, ""))]
    /\ UNCHANGED <<server, props, state, cycles, selector, widget>>

\* the onChange of the sample rate field, and the effect that clears the
\* field's error when data.sampleRate has changed
ChangeSampleRate(value) ==
    /\ modal.open
    /\ value /= modal.data.sampleRate
    /\ modal' = [modal EXCEPT
            !.data.sampleRate = value,
            !.data.errors.sampleRate = None]
    /\ UNCHANGED <<server, props, state, cycles, selector, widget>>

\* the Cancel button
Cancel ==
    /\ modal.open
    /\ modal' = [modal EXCEPT
            !.open = FALSE,
            !.calls = Append(@, Call("closeModal", ""))]
    /\ UNCHANGED <<server, props, state, cycles, selector, widget>>

\* Save Rule: onSubmit calls submitRules, which issues the PUT
submitRules ==
    /\ modal.open
    /\ ~submitDisabled(modal.data)
    /\ modal.request /= "pending"
    /\ modal.submits < MaxSubmits
    /\ modal' = [modal EXCEPT !.request = "pending", !.submits = @ + 1]
    /\ UNCHANGED <<server, props, state, cycles, selector, widget>>

\* the PUT settles and submitRules runs to its end
PutResponse(response) ==
    /\ modal.request = "pending"
    /\ modal' =
        IF response = "ok"
        THEN [modal EXCEPT
                !.request = "fulfilled",
                !.open = FALSE,
                !.calls = @ \o <<Call("onSubmitSuccess", "newProjectDetails"),
                                 Call("closeModal", "")>>]
        ELSE convertErrorXhrResponse(
                [modal EXCEPT !.request = "rejected",
                              !.error = handleXhrErrorResponse(response)],
                handleXhrErrorResponse(response))
    /\ UNCHANGED <<server, props, state, cycles, selector, widget>>

InitRuleModal ==
    /\ HookNotRendered
    /\ selector = None /\ widget = None
    /\ \E rule \in Rules : modal = OpenedModal(rule)

NextRuleModal ==
    \/ \E category \in Categories : handleAddCondition(category)
    \/ \E value \in {None, Some(0), Some(50)} : ChangeSampleRate(value)
    \/ Cancel
    \/ submitRules
    \/ \E response \in PutResponses : PutResponse(response)

SpecRuleModal == InitRuleModal /\ [][NextRuleModal]_vars

-----------------------------------------------------------------------------
(* C17 *)

\* the steps in which the PUT settles
PutFulfilled == modal.request = "pending" /\ modal'.request = "fulfilled"

PutRejected == modal.request = "pending" /\ modal'.request = "rejected"

\* the calls a step adds
NewCalls == SubSeq(modal'.calls, Len(modal.calls) + 1, Len(modal'.calls))

\* the parts of C17 beside the sampleRate error: a successful PUT calls
\* onSubmitSuccess with the returned project details and then closeModal; a
\* failed one calls neither, leaves the modal as open as it was with its
\* conditions and sample rate, and an error of another type is shown as a
\* toast
SubmitOutcome ==
    /\ PutFulfilled =>
            NewCalls = <<Call("onSubmitSuccess", "newProjectDetails"),
                         Call("closeModal", "")>>
    /\ PutRejected =>
            /\ \A k \in 1..Len(NewCalls) :
                    NewCalls[k].fn \notin {"onSubmitSuccess", "closeModal"}
            /\ modal'.open = modal.open
            /\ modal'.data.conditions = modal.data.conditions
            /\ modal'.data.sampleRate = modal.data.sampleRate
            /\ modal'.error.type /= "sampleRate" =>
                    /\ NewCalls = <<Call("addErrorMessage", modal'.error.message)>>
                    /\ modal'.data.errors = modal.data.errors

\* C17: when the PUT succeeds, onSubmitSuccess(project details) and then
\* closeModal are called; when it fails neither is called, the modal keeps
\* its conditions and sample rate, and the error is surfaced: as the
\* sampleRate field error when the converted error has type sampleRate, as
\* an error toast otherwise.
C17_SubmitRulesOutcome ==
    [][ /\ SubmitOutcome
        /\ (PutRejected /\ modal'.error.type = "sampleRate") =>
                /\ modal'.data.errors.sampleRate = Some(modal'.error.message)
                /\ NewCalls = <<>> ]_vars

\* the parts of C17 that hold
C17_SuccessAndToast == [][SubmitOutcome]_vars

=============================================================================
